---- MODULE Spec2Model ----
(***************************************************************************)
(* Account-metrics dashboard: the numeric normalizer (parseNumber, three   *)
(* copies), the record builder (readExcelFile and GET /api/data), the      *)
(* entity key (getAccountKey), the safe accessor (safeGetValue), the       *)
(* forward-total delta (getDisplayMetrics + findPreviousAccountData), the  *)
(* yearly aggregation (GET /api/yearly-stats) and the dashboard page's     *)
(* loadData.                                                               *)
(*                                                                         *)
(* Texts are sequences of one-character strings.  Field names are written  *)
(* in pinyin because the module text is ASCII:                             *)
(*   GongZhongHao = 公众号 (primary name)                                  *)
(*   ZhangHaoMing = 帐号名 (alternate name)                                *)
(*   YueDuZongShu = 阅读总数 (total reads)                                 *)
(*   TouTiaoYueDu = 头条文章阅读量 (headline reads)                        *)
(*   ZhuanFaZongLiang = 转发总量 (forward total)                           *)
(*                                                                         *)
(* A JavaScript number is NaN, +Infinity, -Infinity or a finite decimal    *)
(* m * 10^e kept normalised (m has no trailing zero; zero is m = 0, e = 0).*)
(* Finite arithmetic is exact decimal arithmetic; what is kept of IEEE     *)
(* doubles is the overflow to Infinity above 1.797e308, the underflow to 0 *)
(* and the NaN / Infinity rules of + - * and of the || and ?? operators.   *)
(***************************************************************************)
EXTENDS Integers, Sequences, FiniteSets, TLC

VARIABLES
    mode,          \* which operation of the program this behaviour exercises
    value,         \* parseNumber: the raw cell handed to the three copies
    parsed,        \* parseNumber: what each copy returned ("none" before the call)
    jsonData,      \* ingestion: the decoded first sheet, row 1 the Header
    accounts,      \* ingestion: the outcome (pending, the Snapshot, or one error)
    account,       \* display: the current-period record being shown
    previousData,  \* display: the previous-period Snapshot held by the page
    key,           \* display: what getAccountKey returned for account
    getter,        \* display: the computation handed to safeGetValue
    fieldName,     \* display: the label handed to safeGetValue
    safeValue,     \* display: what safeGetValue returned
    metrics,       \* display: the bundle getDisplayMetrics returned
    disk,          \* yearly: per period, what the data directory holds for it
    pc,            \* yearly: position of GET /api/yearly-stats
    months,        \* yearly: the sorted period list the handler computed
    idx,           \* yearly: index of the next period of the loop
    statsMap,      \* yearly: the accumulator per allowlisted account
    response,      \* yearly: the response of the handler
    availableMonths,  \* page: the period list, newest first
    selectedMonth,    \* page: the selected period ("" when none)
    currentData,      \* page: the current-period Snapshot
    error,            \* page: the error message shown ("" when none)
    loading,          \* page: the loading flag
    step,             \* page: position of loadData
    previousMonth,    \* page: the period loadData requested as previous ("" when none)
    previousFetch,    \* page: what the previous-period fetch did ("none" before it)
    loads             \* page: the runs of loadData started so far, each with its own
                      \*       selected period and position

parseVars == <<value, parsed>>
buildVars == <<jsonData, accounts>>
displayVars == <<account, previousData, key, getter, fieldName, safeValue, metrics>>
yearlyVars == <<disk, pc, months, idx, statsMap, response>>
pageVars == <<availableMonths, selectedMonth, currentData, error, loading, step,
              previousMonth, previousFetch, loads>>
vars == <<mode, value, parsed, jsonData, accounts,
          account, previousData, key, getter, fieldName, safeValue, metrics,
          disk, pc, months, idx, statsMap, response,
          availableMonths, selectedMonth, currentData, error, loading, step,
          previousMonth, previousFetch, loads>>

(***************************************************************************)
(* Bounds of the model.                                                    *)
(***************************************************************************)
MaxLen == 3        \* longest enumerated cell text
MaxRows == 2       \* most data rows of an enumerated sheet
MaxPrev == 2       \* most records of an enumerated previous-period Snapshot
MaxMonths == 2     \* number of periods the data directory may hold
MaxLoads == 2      \* most runs of the page's loadData in one behaviour

(***************************************************************************)
(* JavaScript numbers.                                                     *)
(***************************************************************************)
NaN == [k |-> "nan", m |-> 0, e |-> 0]
Infinity == [k |-> "inf", m |-> 1, e |-> 0]
NegInfinity == [k |-> "inf", m |-> -1, e |-> 0]
Zero == [k |-> "fin", m |-> 0, e |-> 0]

RECURSIVE Pow10(_)
Pow10(k) == IF k <= 0 THEN 1 ELSE 10 * Pow10(k - 1)

Abs(i) == IF i < 0 THEN -i ELSE i

RECURSIVE NumDigits(_)
NumDigits(i) == IF Abs(i) < 10 THEN 1 ELSE 1 + NumDigits(Abs(i) \div 10)

\* The first four significant digits of a mantissa.
Lead4(m) ==
    LET d == NumDigits(m)
    IN  IF d <= 4 THEN Abs(m) * Pow10(4 - d) ELSE Abs(m) \div Pow10(d - 4)

RECURSIVE StripZeros(_, _)
StripZeros(m, e) ==
    IF m = 0 THEN Zero
    ELSE IF m % 10 = 0 THEN StripZeros(m \div 10, e + 1)
    ELSE [k |-> "fin", m |-> m, e |-> e]

\* The double nearest to m * 10^e, as far as the model keeps doubles: the
\* largest finite double is 1.7976931348623157e308, the smallest 4.9e-324.
Fin(m, e) ==
    LET n == StripZeros(m, e)
        order == NumDigits(n.m) - 1 + n.e
    IN  IF n.m = 0 THEN Zero
        ELSE IF order > 308 \/ (order = 308 /\ Lead4(n.m) > 1797)
             THEN (IF n.m > 0 THEN Infinity ELSE NegInfinity)
        ELSE IF order < -324 THEN Zero
        ELSE n

IntNum(i) == Fin(i, 0)

isNaN(n) == n.k = "nan"
isFinite(n) == n.k = "fin"

\* a + b
NumAdd(a, b) ==
    IF isNaN(a) \/ isNaN(b) THEN NaN
    ELSE IF a.k = "inf" /\ b.k = "inf" THEN (IF a.m = b.m THEN a ELSE NaN)
    ELSE IF a.k = "inf" THEN a
    ELSE IF b.k = "inf" THEN b
    ELSE LET e == IF a.e < b.e THEN a.e ELSE b.e
         IN  Fin(a.m * Pow10(a.e - e) + b.m * Pow10(b.e - e), e)

NumNeg(a) == IF a.k = "nan" THEN a ELSE [a EXCEPT !.m = -a.m]

\* a - b
NumSub(a, b) == NumAdd(a, NumNeg(b))

\* a * 10000
Times10000(a) == IF a.k = "fin" THEN Fin(a.m, a.e + 4) ELSE a

(***************************************************************************)
(* Texts and the String methods the program calls.                         *)
(***************************************************************************)
DigitChars == <<"0", "1", "2", "3", "4", "5", "6", "7", "8", "9">>
IsDigit(c) == \E i \in 1..10 : DigitChars[i] = c
DigitVal(c) == (CHOOSE i \in 1..10 : DigitChars[i] = c) - 1

IsSpace(c) == c = " "

RECURSIVE TrimStart(_)
TrimStart(s) ==
    IF s # <<>> /\ IsSpace(Head(s)) THEN TrimStart(Tail(s)) ELSE s

RECURSIVE TrimEnd(_)
TrimEnd(s) ==
    IF s # <<>> /\ IsSpace(s[Len(s)]) THEN TrimEnd(SubSeq(s, 1, Len(s) - 1)) ELSE s

\* String.prototype.trim
trim(s) == TrimEnd(TrimStart(s))

\* s.includes(c) for a one-character c
includes(s, c) == \E i \in 1..Len(s) : s[i] = c

\* s.replace(/[...]/g, ''): every character of the set cs is removed
RECURSIVE replaceAll(_, _)
replaceAll(s, cs) ==
    IF s = <<>> THEN <<>>
    ELSE IF Head(s) \in cs THEN replaceAll(Tail(s), cs)
    ELSE <<Head(s)>> \o replaceAll(Tail(s), cs)

\* s.replace(c, ''): only the first occurrence of c is removed
RECURSIVE replaceFirst(_, _)
replaceFirst(s, c) ==
    IF s = <<>> THEN <<>>
    ELSE IF Head(s) = c THEN Tail(s)
    ELSE <<Head(s)>> \o replaceFirst(Tail(s), c)

\* s.toLowerCase(), on the letters the model's texts use
toLowerCase(s) == [i \in 1..Len(s) |-> IF s[i] = "W" THEN "w" ELSE s[i]]

(***************************************************************************)
(* parseFloat (ECMAScript): skip leading white space, then the longest     *)
(* prefix that is a StrDecimalLiteral; NaN when there is none.             *)
(***************************************************************************)
InfinityText == <<"I", "n", "f", "i", "n", "i", "t", "y">>

StartsWith(s, p) == Len(s) >= Len(p) /\ SubSeq(s, 1, Len(p)) = p

Drop(s, n) == SubSeq(s, n + 1, Len(s))

\* Number of leading digit characters of s.
RECURSIVE DigitRun(_)
DigitRun(s) ==
    IF s # <<>> /\ IsDigit(Head(s)) THEN 1 + DigitRun(Tail(s)) ELSE 0

\* The integer written by a text of digits, read after the accumulator acc.
RECURSIVE DigitsValue(_, _)
DigitsValue(s, acc) ==
    IF s = <<>> THEN acc ELSE DigitsValue(Tail(s), 10 * acc + DigitVal(Head(s)))

\* The ExponentPart at the head of s, or 0 when s has none.
ExponentOf(s) ==
    IF s = <<>> \/ Head(s) \notin {"e", "E"} THEN 0
    ELSE LET r == Tail(s)
             signed == r # <<>> /\ Head(r) \in {"+", "-"}
             d == IF signed THEN Tail(r) ELSE r
             n == DigitRun(d)
         IN  IF n = 0 THEN 0
             ELSE IF signed /\ Head(r) = "-"
                  THEN -DigitsValue(SubSeq(d, 1, n), 0)
                  ELSE DigitsValue(SubSeq(d, 1, n), 0)

parseFloat(s) ==
    LET t == TrimStart(s)
        signed == t # <<>> /\ Head(t) \in {"+", "-"}
        sign == IF signed /\ Head(t) = "-" THEN -1 ELSE 1
        u == IF signed THEN Tail(t) ELSE t
        ni == DigitRun(u)
        afterInt == Drop(u, ni)
        dotted == afterInt # <<>> /\ Head(afterInt) = "."
        nf == IF dotted THEN DigitRun(Tail(afterInt)) ELSE 0
        \* "." with no digit on either side is not part of a literal
        afterFrac == IF dotted /\ (ni > 0 \/ nf > 0) THEN Drop(afterInt, 1 + nf) ELSE afterInt
        digits == SubSeq(u, 1, ni) \o (IF dotted THEN SubSeq(Tail(afterInt), 1, nf) ELSE <<>>)
    IN  IF StartsWith(u, InfinityText)
            THEN (IF sign = 1 THEN Infinity ELSE NegInfinity)
        ELSE IF ni = 0 /\ nf = 0 THEN NaN
        ELSE Fin(sign * DigitsValue(digits, 0), ExponentOf(afterFrac) - nf)

(***************************************************************************)
(* Raw cell values: a string, a number, or empty/undefined.                *)
(***************************************************************************)
Str(s) == [t |-> "string", s |-> s, n |-> Zero]
Num(n) == [t |-> "number", s |-> <<>>, n |-> n]
Undefined == [t |-> "undefined", s |-> <<>>, n |-> Zero]
Null == [t |-> "null", s |-> <<>>, n |-> Zero]

\* parseNumber without the removal of '+' (mutant of parseNumber).
parseNumber_keepPlus(v) ==
    IF v.t = "number" THEN v.n
    ELSE IF v.t # "string" THEN Zero
    ELSE LET cleaned == trim(v.s)
         IN  IF includes(cleaned, "w")
             THEN LET num == parseFloat(replaceFirst(cleaned, "w"))
                  IN  IF isNaN(num) THEN Zero ELSE Times10000(num)
             ELSE LET num == parseFloat(cleaned)
                  IN  IF isNaN(num) THEN Zero ELSE num

(***************************************************************************)
(* parseNumber, the copy of the library (lib/excelReader).                 *)
(***************************************************************************)
parseNumber(v) ==
    IF v.t = "number" THEN v.n
    ELSE IF v.t # "string" THEN Zero
    ELSE LET cleaned == replaceAll(trim(v.s), {"+"})
         IN  IF includes(cleaned, "w")
             THEN LET numPart == replaceFirst(replaceFirst(cleaned, "w"), "+")
                      num == parseFloat(numPart)
                  IN  IF isNaN(num) THEN Zero ELSE Times10000(num)
             ELSE LET num == parseFloat(cleaned)
                  IN  IF isNaN(num) THEN Zero ELSE num

(***************************************************************************)
(* parseNumber, the copy of GET /api/data.                                 *)
(***************************************************************************)
parseNumber_data(v) ==
    IF v.t = "number" THEN v.n
    ELSE IF v.t # "string" THEN Zero
    ELSE LET cleaned == replaceAll(trim(v.s), {"+"})
         IN  IF includes(cleaned, "w")
             THEN LET numPart == replaceFirst(replaceFirst(cleaned, "w"), "+")
                      num == parseFloat(numPart)
                  IN  IF isNaN(num) THEN Zero ELSE Times10000(num)
             ELSE LET num == parseFloat(cleaned)
                  IN  IF isNaN(num) THEN Zero ELSE num

(***************************************************************************)
(* parseNumber, the copy of GET /api/yearly-stats.                         *)
(***************************************************************************)
parseNumber_yearly(v) ==
    IF v.t = "number" THEN v.n
    ELSE IF v.t # "string" THEN Zero
    ELSE LET cleaned == replaceAll(trim(v.s), {"+"})
         IN  IF includes(toLowerCase(cleaned), "w")
             THEN LET numPart == replaceFirst(replaceAll(cleaned, {"w", "W"}), "+")
                      num == parseFloat(numPart)
                  IN  IF isNaN(num) THEN Zero ELSE Times10000(num)
             ELSE LET num == parseFloat(cleaned)
                  IN  IF isNaN(num) THEN Zero ELSE num

(***************************************************************************)
(* The cells the normalizer is exercised on: every text of at most MaxLen  *)
(* characters over CellChars, the texts the specification names, and the   *)
(* non-string cells.                                                       *)
(***************************************************************************)
CellChars == {"1", "5", ".", "+", "-", "w", "W", "a", " ", "e"}

RECURSIVE TextsUpTo(_)
TextsUpTo(n) ==
    IF n = 0 THEN {<<>>}
    ELSE LET shorter == TextsUpTo(n - 1)
         IN  shorter \cup {Append(s, c) : s \in shorter, c \in CellChars}

NamedTexts ==
    { <<"1", ".", "5", "w">>, <<"1", ".", "5", "W">>, <<"+", "2", "3">>,
      <<"a", "b", "c">>, InfinityText, <<"-">> \o InfinityText,
      InfinityText \o <<"w">>, <<"1", "e", "9", "9", "9">>,
      <<"1", "e", "-", "9", "9", "9">>, <<"2", "e", "3", "0", "8">>,
      <<"1", "e", "3", "0", "5", "w">>, <<"3", "0", "0", "+">>,
      <<"1", ".", "2", "w">>, <<" ", "1", "2", "w", "+", " ">>,
      <<"1", "w", ".", "w", "5">> }

NumberCells == {Num(IntNum(0)), Num(IntNum(7)), Num(Fin(-25, -1)), Num(NaN), Num(Infinity), Num(NegInfinity)}

Cells == {Str(s) : s \in TextsUpTo(MaxLen) \cup NamedTexts} \cup NumberCells \cup {Undefined}

(***************************************************************************)
(* The normalizer as a process: a cell arrives and each copy is called.    *)
(***************************************************************************)
Copies == {"lib", "data", "yearly"}
None == [k |-> "none", m |-> 0, e |-> 0]

IdleParse == value = Undefined /\ parsed = [c \in Copies |-> None]
IdleBuild == jsonData = <<>> /\ accounts = [st |-> "idle", data |-> <<>>, error |-> ""]
IdleDisplay ==
    /\ account = <<>>
    /\ previousData = <<>>
    /\ key = Undefined
    /\ getter = [raises |-> FALSE, v |-> Undefined]
    /\ fieldName = <<>>
    /\ safeValue = Undefined
    /\ metrics = <<>>

IdleYearly ==
    /\ disk = <<>>
    /\ pc = "idle"
    /\ months = <<>>
    /\ idx = 0
    /\ statsMap = <<>>
    /\ response = [st |-> "idle", data |-> <<>>, months |-> <<>>]

IdlePage ==
    /\ availableMonths = <<>>
    /\ selectedMonth = ""
    /\ currentData = <<>>
    /\ error = ""
    /\ loading = FALSE
    /\ step = "idle"
    /\ previousMonth = ""
    /\ previousFetch = "none"
    /\ loads = <<>>

InitParse ==
    /\ mode = "parse"
    /\ value \in Cells
    /\ parsed = [c \in Copies |-> None]
    /\ IdleBuild
    /\ IdleDisplay
    /\ IdleYearly
    /\ IdlePage

CallParseNumber ==
    /\ mode = "parse"
    /\ parsed["lib"] = None
    /\ parsed' = [parsed EXCEPT !["lib"] = parseNumber(value)]
    /\ UNCHANGED <<mode, pageVars, value, buildVars, displayVars, yearlyVars>>

CallParseNumberData ==
    /\ mode = "parse"
    /\ parsed["data"] = None
    /\ parsed' = [parsed EXCEPT !["data"] = parseNumber_data(value)]
    /\ UNCHANGED <<mode, pageVars, value, buildVars, displayVars, yearlyVars>>

CallParseNumberYearly ==
    /\ mode = "parse"
    /\ parsed["yearly"] = None
    /\ parsed' = [parsed EXCEPT !["yearly"] = parseNumber_yearly(value)]
    /\ UNCHANGED <<mode, pageVars, value, buildVars, displayVars, yearlyVars>>

NextParse == CallParseNumber \/ CallParseNumberData \/ CallParseNumberYearly

SpecParse == InitParse /\ [][NextParse]_vars

(***************************************************************************)
(* Claims about the normalizer, checked under SpecParse.                   *)
(***************************************************************************)
Called(c) == parsed[c] # None

HasDigit(s) == \E i \in 1..Len(s) : IsDigit(s[i])

\* A plain decimal numeral: digits with at most one "." and at least one digit.
IsNumeral(s) ==
    /\ HasDigit(s)
    /\ \A i \in 1..Len(s) : IsDigit(s[i]) \/ s[i] = "."
    /\ Cardinality({i \in 1..Len(s) : s[i] = "."}) <= 1

\* The copy c applied to a cell.
CopyOf(c, v) ==
    IF c = "lib" THEN parseNumber(v)
    ELSE IF c = "data" THEN parseNumber_data(v)
    ELSE parseNumber_yearly(v)

\* C1: for every string cell each copy of parseNumber returns a finite number,
\* never NaN and never +/-Infinity (stated as the claim states it; the code
\* returns Infinity for the text "Infinity").
C1_StringResultFinite ==
    \A c \in Copies : (value.t = "string" /\ Called(c)) => isFinite(parsed[c])

C3_MarkerEitherCase ==
    \A c \in {"lib", "data"} :
        ( /\ Called(c)
          /\ value.t = "string"
          /\ Len(value.s) >= 2
          /\ value.s[Len(value.s)] \in {"w", "W"}
          /\ IsNumeral(SubSeq(value.s, 1, Len(value.s) - 1)) )
        => parsed[c] = Times10000(parseFloat(SubSeq(value.s, 1, Len(value.s) - 1)))

\* C21: the three copies of parseNumber return the same number for the same
\* cell (stated as the claim states it; the yearly copy alone recognises the
\* upper-case marker and removes every marker letter).
C21_CopiesAgree ==
    \A c \in Copies : \A d \in Copies :
        (Called(c) /\ Called(d)) => parsed[c] = parsed[d]

(***************************************************************************)
(* RecordBuilder: readExcelFile (library) and GET /api/data?month=...      *)
(***************************************************************************)
\* Field names are texts of one token each.
GongZhongHao == <<"GongZhongHao">>       \* 公众号
ZhangHaoMing == <<"ZhangHaoMing">>       \* 帐号名
YueDuZongShu == <<"YueDuZongShu">>       \* 阅读总数

\* JavaScript truthiness of a value.
Truthy(v) ==
    IF v.t = "string" THEN v.s # <<>>
    ELSE IF v.t = "number" THEN ~isNaN(v.n) /\ v.n # Zero
    ELSE FALSE

\* a || b
Or(a, b) == IF Truthy(a) THEN a ELSE b

\* a ?? b
Coalesce(a, b) == IF a.t \in {"undefined", "null"} THEN b ELSE a

\* row[i] for a zero-based index i: undefined outside the array
At(row, i) == IF i >= 0 /\ i < Len(row) THEN row[i + 1] ELSE Undefined

\* The decimal digits of a natural number.
RECURSIVE DigitsOf(_)
DigitsOf(i) ==
    IF i < 10 THEN <<DigitChars[i + 1]>>
    ELSE Append(DigitsOf(i \div 10), DigitChars[(i % 10) + 1])

Zeros(k) == [i \in 1..k |-> "0"]

\* Number.prototype.toString for the magnitudes printed without an exponent
\* (1e-7 < |x| < 1e21).
NumberToString(n) ==
    IF isNaN(n) THEN <<"N", "a", "N">>
    ELSE IF n.k = "inf" THEN (IF n.m > 0 THEN InfinityText ELSE <<"-">> \o InfinityText)
    ELSE LET d == DigitsOf(Abs(n.m))
             body == IF n.e >= 0 THEN d \o Zeros(n.e)
                     ELSE IF Len(d) > -n.e
                          THEN SubSeq(d, 1, Len(d) + n.e) \o <<".">> \o SubSeq(d, Len(d) + n.e + 1, Len(d))
                          ELSE <<"0", ".">> \o Zeros(-n.e - Len(d)) \o d
         IN  IF n.m < 0 THEN <<"-">> \o body ELSE body

\* value?.toString() || ''
IdentityText(v) ==
    IF v.t \in {"undefined", "null"} THEN <<>>
    ELSE IF v.t = "number" THEN NumberToString(v.n)
    ELSE v.s

\* The object built by headers.forEach for one row: a later column of the same
\* name overwrites an earlier one.  copy names the parseNumber in scope.
ParseWith(copy, v) ==
    IF copy = "data" THEN parseNumber_data(v) ELSE parseNumber(v)

BuildAccount(headers, row, copy) ==
    LET names == {headers[i].s : i \in 1..Len(headers)}
        last(name) == CHOOSE i \in 1..Len(headers) :
                          /\ headers[i].s = name
                          /\ \A j \in 1..Len(headers) : headers[j].s = name => j <= i
    IN  [name \in names |->
            IF headers[last(name)] = Str(GongZhongHao) \/ headers[last(name)] = Str(ZhangHaoMing)
            THEN Str(IdentityText(At(row, last(name) - 1)))
            ELSE Num(ParseWith(copy, At(row, last(name) - 1)))]

\* .filter(row => row && (row[0] || row[1]))
KeepsRow(row) == Truthy(Or(At(row, 0), At(row, 1)))

RECURSIVE FilterRows(_)
FilterRows(rows) ==
    IF rows = <<>> THEN <<>>
    ELSE IF KeepsRow(Head(rows)) THEN <<Head(rows)>> \o FilterRows(Tail(rows))
    ELSE FilterRows(Tail(rows))

\* A builder that returns the records in reverse row order.
ParseRows_reversed(headers, dataRows, copy) ==
    LET kept == FilterRows(dataRows)
    IN  [i \in 1..Len(kept) |-> BuildAccount(headers, kept[Len(kept) + 1 - i], copy)]

\* dataRows.filter(...).map(...)
ParseRows(headers, dataRows, copy) ==
    LET kept == FilterRows(dataRows)
    IN  [i \in 1..Len(kept) |-> BuildAccount(headers, kept[i], copy)]

Resolved(data) == [st |-> "ok", data |-> data, error |-> ""]
Rejected(msg) == [st |-> "error", data |-> <<>>, error |-> msg]
Pending == [st |-> "pending", data |-> <<>>, error |-> ""]

\* What JSON.stringify / JSON.parse leave of a value: NaN and +/-Infinity
\* are written as null.
JsonValue(v) == IF v.t = "number" /\ ~isFinite(v.n) THEN Null ELSE v
JsonRecord(r) == [name \in DOMAIN r |-> JsonValue(r[name])]
JsonRecords(rs) == [i \in 1..Len(rs) |-> JsonRecord(rs[i])]

\* readExcelFile: io is what the FileReader and the workbook decoder do.
readExcelFile(io, sheet) ==
    IF io = "readError" THEN Rejected("read failed")
    ELSE IF io = "decodeThrows" THEN Rejected("decode failed")
    ELSE IF Len(sheet) < 2 THEN Rejected("needs header and data rows")
    ELSE Resolved(ParseRows(Head(sheet), Tail(sheet), "lib"))

\* GET /api/data?month=...: io is what the file system and the decoder do.
GET_data(io, sheet) ==
    IF io = "notFound" THEN Rejected("404 not found")
    ELSE IF io = "unreadable" THEN Rejected("cannot read")
    ELSE IF io = "noSheet" THEN Rejected("400 no worksheet")
    ELSE IF io = "undecodable" THEN Rejected("400 cannot decode")
    ELSE IF Len(sheet) < 2 THEN Rejected("400 needs header and data rows")
    ELSE IF Len(Head(sheet)) = 0 THEN Rejected("400 no header")
    ELSE Resolved(JsonRecords(ParseRows(Head(sheet), Tail(sheet), "data")))

(***************************************************************************)
(* The sheets ingestion is exercised on: each Header layout with at most   *)
(* MaxRows data rows of the same width over DataCells, the sheet with no   *)
(* row at all, and the sheets the specification names.                     *)
(***************************************************************************)
Layouts ==
    { <<Str(GongZhongHao), Str(ZhangHaoMing), Str(YueDuZongShu)>>,
      <<Str(YueDuZongShu), Str(GongZhongHao), Str(ZhangHaoMing)>>,
      <<Str(ZhangHaoMing), Str(YueDuZongShu), Str(GongZhongHao)>>,
      <<Str(GongZhongHao), Str(YueDuZongShu)>>,
      <<Str(GongZhongHao), Str(YueDuZongShu), Str(YueDuZongShu)>>,
      <<Str(GongZhongHao), Str(GongZhongHao)>> }

DataCells == {Str(<<>>), Str(<<"A">>), Num(Zero)}

RowsOfWidth(w) == [1..w -> DataCells]

\* The sequences of n rows of width w.
RowSeqs(w, n) == [1..n -> RowsOfWidth(w)]

ExampleSheet ==
    << <<Str(GongZhongHao), Str(ZhangHaoMing), Str(YueDuZongShu)>>,
       <<Str(<<"A">>), Str(<<>>), Str(<<"1", ".", "2", "w">>)>>,
       <<Str(<<>>), Str(<<>>), Str(<<>>)>>,
       <<Str(<<"B">>), Str(<<"b", "2">>), Str(<<"3", "0", "0", "+">>)>> >>

\* The sheets of Header h with n data rows.
SheetsOf(h, n) == {<<h>> \o rs : rs \in RowSeqs(Len(h), n)}

\* A sheet whose header row has no cell and one whose header cells are all
\* blank (what the decoder yields with defval: ''), each above a data row.
HeaderlessSheet == << <<>>, <<Str(<<"A">>), Str(<<>>)>> >>
BlankHeaderSheet == << <<Str(<<>>), Str(<<>>)>>, <<Str(<<"A">>), Num(Zero)>> >>

\* A sheet whose Header names the 阅读总数 column twice.
DuplicateSheet ==
    << <<Str(GongZhongHao), Str(YueDuZongShu), Str(YueDuZongShu)>>,
       <<Str(<<"A">>), Num(IntNum(5)), Num(IntNum(7))>> >>

NamedSheets == {<<>>, ExampleSheet, HeaderlessSheet, BlankHeaderSheet, DuplicateSheet}

LibIO == {"ok", "readError", "decodeThrows"}
DataIO == {"ok", "notFound", "unreadable", "noSheet", "undecodable"}

InitBuild ==
    /\ mode \in {"readExcelFile", "GET_data"}
    /\ \/ \E h \in Layouts, n \in 0..MaxRows : jsonData \in SheetsOf(h, n)
       \/ jsonData \in NamedSheets
    /\ accounts = Pending
    /\ IdleParse
    /\ IdleDisplay
    /\ IdleYearly
    /\ IdlePage

\* A file is handed to readExcelFile.
CallReadExcelFile ==
    /\ mode = "readExcelFile"
    /\ accounts = Pending
    /\ \E io \in LibIO : accounts' = readExcelFile(io, jsonData)
    /\ UNCHANGED <<mode, pageVars, jsonData, parseVars, displayVars, yearlyVars>>

\* GET /api/data?month=<a period> is served.
CallGET_data ==
    /\ mode = "GET_data"
    /\ accounts = Pending
    /\ \E io \in DataIO : accounts' = GET_data(io, jsonData)
    /\ UNCHANGED <<mode, pageVars, jsonData, parseVars, displayVars, yearlyVars>>

NextBuild == CallReadExcelFile \/ CallGET_data

SpecBuild == InitBuild /\ [][NextBuild]_vars

(***************************************************************************)
(* Claims about the record builder, checked under SpecBuild.               *)
(***************************************************************************)
\* Some column of the Header is named name and the row's cell under it is
\* non-empty (a cell is empty as JavaScript counts it: '', 0 or undefined).
HasCellUnder(headers, row, name) ==
    \E i \in 1..Len(headers) : headers[i] = Str(name) /\ Truthy(At(row, i - 1))

\* The rows the claim says belong to the Snapshot.
IdentifiedRows(sheet) ==
    {i \in 2..Len(sheet) :
        \/ HasCellUnder(sheet[1], sheet[i], GongZhongHao)
        \/ HasCellUnder(sheet[1], sheet[i], ZhangHaoMing)}

\* C4: a row is in the Snapshot if and only if its cell under the 公众号 header
\* or its cell under the 帐号名 header is non-empty, wherever the two headers
\* stand (stated as the claim states it; the code tests the cells of the
\* first two columns, whatever their headers).
C4_IncludedIffIdentified ==
    accounts.st = "ok" =>
        /\ Len(accounts.data) = Cardinality(IdentifiedRows(jsonData))
        /\ \A i \in 2..Len(jsonData) :
              KeepsRow(jsonData[i]) <=> i \in IdentifiedRows(jsonData)

\* A source is malformed when it has fewer than two rows or its header row
\* has no named column.
Malformed(sheet) ==
    \/ Len(sheet) < 2
    \/ \A i \in 1..Len(sheet[1]) : ~Truthy(sheet[1][i])

\* C11: on either ingestion path a malformed source (no header row, an empty
\* header row, an empty sheet, fewer than two rows) ends in one error and no
\* record at all.
C11_MalformedSourceFails ==
    (accounts.st \in {"ok", "error"} /\ Malformed(jsonData)) =>
        /\ accounts.st = "error"
        /\ accounts.data = <<>>

\* The rows the builder includes, in row order: IncludedAt(sheet, j) is the
\* index of the j-th of them.
IncludedRows(sheet) == {i \in 2..Len(sheet) : KeepsRow(sheet[i])}
IncludedAt(sheet, j) ==
    CHOOSE i \in IncludedRows(sheet) :
        Cardinality({k \in IncludedRows(sheet) : k <= i}) = j

\* The record the path in use (mode) owes for row i of the sheet; the route
\* hands it over as JSON.
RecordOfRow(sheet, i, path) ==
    IF path = "GET_data" THEN JsonRecord(BuildAccount(sheet[1], sheet[i], "data"))
    ELSE BuildAccount(sheet[1], sheet[i], "lib")

ExampleRecords ==
    << (GongZhongHao :> Str(<<"A">>) @@ ZhangHaoMing :> Str(<<>>)
            @@ YueDuZongShu :> Num(IntNum(12000))),
       (GongZhongHao :> Str(<<"B">>) @@ ZhangHaoMing :> Str(<<"b", "2">>)
            @@ YueDuZongShu :> Num(IntNum(300))) >>

\* C12: the example sheet gives exactly the two records {A, "", 12000} and
\* {B, "b2", 300} in row order; in general the Snapshot holds one record per
\* included row, in the rows' relative order.
C12_EndToEnd ==
    accounts.st = "ok" =>
        /\ jsonData = ExampleSheet => accounts.data = ExampleRecords
        /\ Len(accounts.data) = Cardinality(IncludedRows(jsonData))
        /\ \A j \in 1..Len(accounts.data) :
              accounts.data[j] = RecordOfRow(jsonData, IncludedAt(jsonData, j), mode)

\* C12 witness: the example sheet was ingested and gave its two records.
C12_Witness ==
    /\ jsonData = ExampleSheet
    /\ accounts.st = "ok"
    /\ accounts.data = ExampleRecords

\* The first position of the Header that carries the name.
FirstIndex(headers, name) ==
    CHOOSE i \in 1..Len(headers) :
        /\ headers[i].s = name
        /\ \A j \in 1..i - 1 : headers[j].s # name

\* What a record owes for the name when the cell is taken from column i.
FieldFrom(headers, row, i, path) ==
    IF headers[i] = Str(GongZhongHao) \/ headers[i] = Str(ZhangHaoMing)
    THEN Str(IdentityText(At(row, i - 1)))
    ELSE IF path = "GET_data" THEN JsonValue(Num(parseNumber_data(At(row, i - 1))))
    ELSE Num(parseNumber(At(row, i - 1)))

\* C15: when the Header carries a name at several positions, each record
\* holds under that name the value of the first of them (stated as the
\* claim states it; headers.forEach assigns every position in turn).
C15_FirstDuplicateWins ==
    accounts.st = "ok" =>
        \A j \in 1..Len(accounts.data) : \A i \in 1..Len(jsonData[1]) :
            accounts.data[j][jsonData[1][i].s] =
                FieldFrom(jsonData[1], jsonData[IncludedAt(jsonData, j)],
                          FirstIndex(jsonData[1], jsonData[1][i].s), mode)

(***************************************************************************)
(* Display: getAccountKey, safeGetValue, getDisplayMetrics (library) and   *)
(* findPreviousAccountData (page).  An AccountData is a function from      *)
(* field names to values; a field the object lacks is outside its domain.  *)
(***************************************************************************)
WenZhangZongShu == <<"WenZhangZongShu">>                  \* 文章总数
WenZhangZongZengLiang == <<"WenZhangZongZengLiang">>      \* 文章总增量
YueDuZongShuZengLiang == <<"YueDuZongShuZengLiang">>      \* 阅读总数增量
TouTiaoYueDu == <<"TouTiaoWenZhangYueDuLiang">>           \* 头条文章阅读量
TouTiaoYueDuZengLiang == <<"TouTiaoWenZhangYueDuZengLiang">>  \* 头条文章阅读增量
Chao10W == <<"Chao10WWenZhangShu">>                       \* 超10W文章数
Chao10WZengLiang == <<"Chao10WWenZhangShuZengLiang">>     \* 超10W文章数增量
PingJunYueDu == <<"PingJunYueDuShu">>                     \* 平均阅读数
PingJunYueDuZengLiang == <<"PingJunYueDuShuZengLiang">>   \* 平均阅读数增量
TuiJianZongShu == <<"TuiJianZongShu">>                    \* 推荐总数
TuiJianZongShuZengLiang == <<"TuiJianZongShuZengLiang">>  \* 推荐总数增量
DianZanZongShu == <<"DianZanZongShu">>                    \* 点赞总数
DianZanShuZengLiang == <<"DianZanShuZengLiang">>          \* 点赞数增量
ZhuanFaZongLiang == <<"ZhuanFaZongLiang">>                \* 转发总量
ZongPaiMing == <<"ZongPaiMing">>                          \* 总排名
ZongPaiMingBianHua == <<"ZongPaiMingBianHua">>            \* 总排名变化

\* account.<name>: undefined when the object has no such field
Get(rec, name) == IF name \in DOMAIN rec THEN rec[name] ELSE Undefined

\* getAccountKey with the two names in the other order (mutant of getAccountKey).
getAccountKey_primaryFirst(rec) ==
    Or(Or(Get(rec, GongZhongHao), Get(rec, ZhangHaoMing)), Str(<<>>))

\* getAccountKey: account.帐号名 || account.公众号 || ''
getAccountKey(rec) ==
    Or(Or(Get(rec, ZhangHaoMing), Get(rec, GongZhongHao)), Str(<<>>))

\* The tagged error { error: `${fieldName}数据错误` }
ErrorTag(label) == [t |-> "error", s |-> label \o <<"ShuJuCuoWu">>, n |-> Zero]

\* A getter that returns v, and the getter that throws.
Returns(v) == [raises |-> FALSE, v |-> v]
Throws == [raises |-> TRUE, v |-> Undefined]

\* safeGetValue that classifies NaN only (mutant of safeGetValue).
safeGetValue_nanOnly(g, label) ==
    IF g.raises THEN ErrorTag(label)
    ELSE IF g.v.t = "number" /\ isNaN(g.v.n) THEN ErrorTag(label)
    ELSE g.v

\* safeGetValue(getter, fieldName)
safeGetValue(g, label) ==
    IF g.raises THEN ErrorTag(label)
    ELSE IF g.v.t = "number" /\ (isNaN(g.v.n) \/ ~isFinite(g.v.n)) THEN ErrorTag(label)
    ELSE g.v

\* ToNumber of an operand of the subtraction: a number field, or the 0
\* that || 0 put in its place.
ToNumber(v) == IF v.t = "number" THEN v.n ELSE IF v.t = "null" THEN Zero ELSE NaN

\* previousData.find(prev => getAccountKey(prev) === key): the first match
NoRecord == [found |-> FALSE, rec |-> <<>>]

findPreviousAccountData(prevData, rec) ==
    LET k == getAccountKey(rec)
        hits == {i \in 1..Len(prevData) : getAccountKey(prevData[i]) = k}
    IN  IF hits = {} THEN NoRecord
        ELSE [found |-> TRUE,
              rec |-> prevData[CHOOSE i \in hits : \A j \in hits : i <= j]]

\* The forward-total increment of getDisplayMetrics: null without a previous
\* record, else (account.转发总量 || 0) - (previousAccount.转发总量 || 0).
forwardIncrement(rec, prev) ==
    IF prev.found
    THEN Num(NumSub(ToNumber(Or(Get(rec, ZhuanFaZongLiang), Num(Zero))),
                    ToNumber(Or(Get(prev.rec, ZhuanFaZongLiang), Num(Zero)))))
    ELSE Null

\* safeGetValue(() => account.<name> ?? 0, label)
SafeField(rec, name, label) ==
    safeGetValue(Returns(Coalesce(Get(rec, name), Num(Zero))), label)

\* One { value, increment } pair read from two columns of the record.
Pair(rec, name, incName, label, incLabel) ==
    [value |-> SafeField(rec, name, label), increment |-> SafeField(rec, incName, incLabel)]

ZengLiang(label) == label \o <<"ZengLiang">>

\* A bundle whose post-count increment is recomputed from the previous record.
getDisplayMetrics_postsFromPrevious(rec, prev) ==
    [ ZhangHaoMingCheng |->
          safeGetValue(Returns(Or(Or(Get(rec, GongZhongHao), Get(rec, ZhangHaoMing)), Str(<<"-">>))),
                       <<"ZhangHaoMingCheng">>),
      FaWenShu |-> [value |-> SafeField(rec, WenZhangZongShu, <<"FaWenShu">>),
                    increment |->
                        IF prev.found
                        THEN Num(NumSub(ToNumber(Get(rec, WenZhangZongShu)),
                                        ToNumber(Get(prev.rec, WenZhangZongShu))))
                        ELSE SafeField(rec, WenZhangZongZengLiang, ZengLiang(<<"FaWenShu">>))],
      ZongYueDuShu |-> Pair(rec, YueDuZongShu, YueDuZongShuZengLiang,
                            <<"ZongYueDuShu">>, ZengLiang(<<"ZongYueDuShu">>)),
      TouTiaoYueDu |-> Pair(rec, TouTiaoYueDu, TouTiaoYueDuZengLiang,
                            <<"TouTiaoYueDu">>, ZengLiang(<<"TouTiaoYueDu">>)),
      ShiWanJia |-> Pair(rec, Chao10W, Chao10WZengLiang,
                         <<"10Wan+">>, ZengLiang(<<"10Wan+">>)),
      PingJunYueDu |-> Pair(rec, PingJunYueDu, PingJunYueDuZengLiang,
                            <<"PingJunYueDu">>, ZengLiang(<<"PingJunYueDu">>)),
      ZongZaiKanShu |-> Pair(rec, TuiJianZongShu, TuiJianZongShuZengLiang,
                             <<"ZongZaiKanShu">>, ZengLiang(<<"ZongZaiKanShu">>)),
      ZongDianZanShu |-> Pair(rec, DianZanZongShu, DianZanShuZengLiang,
                              <<"ZongDianZanShu">>, ZengLiang(<<"ZongDianZanShu">>)),
      ZongZhuanFaShu |-> [value |-> SafeField(rec, ZhuanFaZongLiang, <<"ZongZhuanFaShu">>),
                          increment |-> forwardIncrement(rec, prev)],
      PaiMing |-> Pair(rec, ZongPaiMing, ZongPaiMingBianHua,
                       <<"WCI/PaiMing">>, <<"WCI/PaiMing", "BianHua">>) ]

getDisplayMetrics(rec, prev) ==
    [ ZhangHaoMingCheng |->
          safeGetValue(Returns(Or(Or(Get(rec, GongZhongHao), Get(rec, ZhangHaoMing)), Str(<<"-">>))),
                       <<"ZhangHaoMingCheng">>),
      FaWenShu |-> Pair(rec, WenZhangZongShu, WenZhangZongZengLiang,
                        <<"FaWenShu">>, ZengLiang(<<"FaWenShu">>)),
      ZongYueDuShu |-> Pair(rec, YueDuZongShu, YueDuZongShuZengLiang,
                            <<"ZongYueDuShu">>, ZengLiang(<<"ZongYueDuShu">>)),
      TouTiaoYueDu |-> Pair(rec, TouTiaoYueDu, TouTiaoYueDuZengLiang,
                            <<"TouTiaoYueDu">>, ZengLiang(<<"TouTiaoYueDu">>)),
      ShiWanJia |-> Pair(rec, Chao10W, Chao10WZengLiang,
                         <<"10Wan+">>, ZengLiang(<<"10Wan+">>)),
      PingJunYueDu |-> Pair(rec, PingJunYueDu, PingJunYueDuZengLiang,
                            <<"PingJunYueDu">>, ZengLiang(<<"PingJunYueDu">>)),
      ZongZaiKanShu |-> Pair(rec, TuiJianZongShu, TuiJianZongShuZengLiang,
                             <<"ZongZaiKanShu">>, ZengLiang(<<"ZongZaiKanShu">>)),
      ZongDianZanShu |-> Pair(rec, DianZanZongShu, DianZanShuZengLiang,
                              <<"ZongDianZanShu">>, ZengLiang(<<"ZongDianZanShu">>)),
      ZongZhuanFaShu |-> [value |-> SafeField(rec, ZhuanFaZongLiang, <<"ZongZhuanFaShu">>),
                          increment |-> forwardIncrement(rec, prev)],
      PaiMing |-> Pair(rec, ZongPaiMing, ZongPaiMingBianHua,
                       <<"WCI/PaiMing">>, <<"WCI/PaiMing", "BianHua">>) ]

(***************************************************************************)
(* The records display is exercised on.  A record is given by its two      *)
(* names and its forward total (Undefined: the field is missing); its      *)
(* other numeric columns hold 3.                                           *)
(***************************************************************************)
OtherFields ==
    { WenZhangZongShu, WenZhangZongZengLiang, YueDuZongShu, YueDuZongShuZengLiang,
      TouTiaoYueDu, TouTiaoYueDuZengLiang, Chao10W, Chao10WZengLiang, PingJunYueDu,
      PingJunYueDuZengLiang, TuiJianZongShu, TuiJianZongShuZengLiang, DianZanZongShu,
      DianZanShuZengLiang, ZongPaiMing, ZongPaiMingBianHua }

MakeRecord(gzh, zhm, fwd) ==
    LET given == (GongZhongHao :> gzh) @@ (ZhangHaoMing :> zhm) @@ (ZhuanFaZongLiang :> fwd)
        present == {f \in DOMAIN given : given[f] # Undefined}
    IN  [f \in present \cup OtherFields |-> IF f \in present THEN given[f] ELSE Num(IntNum(3))]

NameValues == {Undefined, Str(<<>>), Str(<<"A">>), Str(<<"B">>)}
ForwardValues ==
    {Undefined, Null, Num(IntNum(2)), Num(IntNum(5)), Num(NaN), Num(Infinity)}

\* Records that differ from a plain one in a single numeric column.
ColumnValues == {Num(NaN), Num(Infinity), Num(IntNum(7))}
VariedRecords ==
    {[MakeRecord(Str(<<"A">>), Undefined, Num(IntNum(5))) EXCEPT ![f] = v] :
        f \in OtherFields, v \in ColumnValues}

CurrentRecords ==
    {MakeRecord(g, z, f) : g \in NameValues, z \in NameValues, f \in ForwardValues}
    \cup VariedRecords

PreviousRecords ==
    {MakeRecord(nm[1], nm[2], f) :
        nm \in { <<Str(<<"A">>), Undefined>>, <<Str(<<"B">>), Str(<<"A">>)>>,
                 <<Str(<<>>), Str(<<>>)>> },
        f \in {Undefined, Num(IntNum(2)), Num(IntNum(5)), Num(NaN), Num(Infinity)}}

RECURSIVE SeqsUpTo(_, _)
SeqsUpTo(S, n) ==
    IF n = 0 THEN {<<>>}
    ELSE LET shorter == SeqsUpTo(S, n - 1)
         IN  shorter \cup {Append(s, x) : s \in {y \in shorter : Len(y) = n - 1}, x \in S}

GetterOutcomes ==
    {Throws} \cup
    {Returns(v) : v \in {Undefined, Null, Str(<<>>), Str(<<"A">>), Num(Zero), Num(IntNum(-5)),
                         Num(Fin(15, -1)), Num(NaN), Num(Infinity), Num(NegInfinity)}}

Labels == {<<"ZongZhuanFaShu">>, <<"FaWenShu", "ZengLiang">>, <<>>}

NoKey == [t |-> "pending", s |-> <<>>, n |-> Zero]

InitDisplay ==
    /\ mode \in {"getAccountKey", "safeGetValue", "render"}
    /\ account \in IF mode = "safeGetValue" THEN {<<>>} ELSE CurrentRecords
    /\ previousData \in IF mode = "render" THEN SeqsUpTo(PreviousRecords, MaxPrev) ELSE {<<>>}
    /\ key = NoKey
    /\ getter \in IF mode = "safeGetValue" THEN GetterOutcomes ELSE {Returns(Undefined)}
    /\ fieldName \in IF mode = "safeGetValue" THEN Labels ELSE {<<>>}
    /\ safeValue = NoKey
    /\ metrics = <<>>
    /\ IdleParse
    /\ IdleBuild
    /\ IdleYearly
    /\ IdlePage

\* getAccountKey(account) is called.
CallGetAccountKey ==
    /\ mode = "getAccountKey"
    /\ key = NoKey
    /\ key' = getAccountKey(account)
    /\ UNCHANGED <<mode, pageVars, parseVars, buildVars, yearlyVars, account, previousData, getter,
                   fieldName, safeValue, metrics>>

\* safeGetValue(getter, fieldName) is called.
CallSafeGetValue ==
    /\ mode = "safeGetValue"
    /\ safeValue = NoKey
    /\ safeValue' = safeGetValue(getter, fieldName)
    /\ UNCHANGED <<mode, pageVars, parseVars, buildVars, yearlyVars, account, previousData, key,
                   getter, fieldName, metrics>>

\* The page renders the row of account:
\* getDisplayMetrics(account, findPreviousAccountData(account)).
RenderRow ==
    /\ mode = "render"
    /\ metrics = <<>>
    /\ metrics' = getDisplayMetrics(account, findPreviousAccountData(previousData, account))
    /\ UNCHANGED <<mode, pageVars, parseVars, buildVars, yearlyVars, account, previousData, key,
                   getter, fieldName, safeValue>>

NextDisplay == CallGetAccountKey \/ CallSafeGetValue \/ RenderRow

SpecDisplay == InitDisplay /\ [][NextDisplay]_vars

(***************************************************************************)
(* Claims about display, checked under SpecDisplay.                        *)
(***************************************************************************)
NonEmptyText(v) == v.t = "string" /\ v.s # <<>>

\* C5: getAccountKey returns the 帐号名 if it is non-empty, else the 公众号 if
\* it is non-empty, else the empty string; the result is a string also when
\* a field is missing, and it is a function of the two names alone.
C5_KeyResolution ==
    (mode = "getAccountKey" /\ key # NoKey) =>
        /\ key.t = "string"
        /\ key.s = IF NonEmptyText(Get(account, ZhangHaoMing)) THEN Get(account, ZhangHaoMing).s
                   ELSE IF NonEmptyText(Get(account, GongZhongHao)) THEN Get(account, GongZhongHao).s
                   ELSE <<>>

\* C5 witness: both names are non-empty and differ, and the key is the 帐号名.
C5_Witness ==
    /\ mode = "getAccountKey"
    /\ Get(account, ZhangHaoMing) = Str(<<"A">>)
    /\ Get(account, GongZhongHao) = Str(<<"B">>)
    /\ key = Str(<<"A">>)

\* The forward total of a record as the bundle shows it (account.转发总量 ?? 0).
ForwardOf(rec) == ToNumber(Coalesce(Get(rec, ZhuanFaZongLiang), Num(Zero)))

Rendered == mode = "render" /\ metrics # <<>>

SameKey == {i \in 1..Len(previousData) : getAccountKey(previousData[i]) = getAccountKey(account)}

\* C6: the forward-total increment is absent (null) when no record of the
\* previous Snapshot has the entity key of the current record, and is the
\* current value minus the previous value when one has (stated as the claim
\* states it; the code subtracts 0 in the place of a NaN total).
C6_ForwardDelta ==
    Rendered =>
        IF SameKey = {}
        THEN metrics.ZongZhuanFaShu.increment = Null
        ELSE \E i \in SameKey :
                metrics.ZongZhuanFaShu.increment =
                    Num(NumSub(ForwardOf(account), ForwardOf(previousData[i])))

\* C7: with a previous record matched, a failed forward-total read (the current
\* or the previous value, or their difference, is NaN or not finite) gives the
\* tagged error as increment (stated as the claim states it; the code never
\* tags the forward-total increment).
C7_ForwardDeltaError ==
    LET prev == findPreviousAccountData(previousData, account)
    IN  ( /\ Rendered
          /\ prev.found
          /\ \/ ~isFinite(ForwardOf(account))
             \/ ~isFinite(ForwardOf(prev.rec))
             \/ ~isFinite(NumSub(ForwardOf(account), ForwardOf(prev.rec))) )
        => metrics.ZongZhuanFaShu.increment.t = "error"

\* C10: safeGetValue returns the tagged error fieldName + "数据错误" when the
\* computation raises or produces a number that is NaN or not finite, and
\* otherwise exactly the value the computation produced.
C10_SafeGetValue ==
    (mode = "safeGetValue" /\ safeValue # NoKey) =>
        IF getter.raises \/ (getter.v.t = "number" /\ getter.v.n.k \in {"nan", "inf"})
        THEN safeValue.t = "error" /\ safeValue.s = fieldName \o <<"ShuJuCuoWu">>
        ELSE safeValue = getter.v

\* C10 witness: the computation produced -Infinity and the result is the tag.
C10_Witness ==
    /\ mode = "safeGetValue"
    /\ getter = Returns(Num(NegInfinity))
    /\ fieldName = <<"ZongZhuanFaShu">>
    /\ safeValue = [t |-> "error", s |-> <<"ZongZhuanFaShu", "ShuJuCuoWu">>, n |-> Zero]

\* The ten labels of the bundle and the column each member is read from.
Parts == {"value", "increment"}
ColumnOf ==
    [ FaWenShu |-> [value |-> WenZhangZongShu, increment |-> WenZhangZongZengLiang],
      ZongYueDuShu |-> [value |-> YueDuZongShu, increment |-> YueDuZongShuZengLiang],
      TouTiaoYueDu |-> [value |-> TouTiaoYueDu, increment |-> TouTiaoYueDuZengLiang],
      ShiWanJia |-> [value |-> Chao10W, increment |-> Chao10WZengLiang],
      PingJunYueDu |-> [value |-> PingJunYueDu, increment |-> PingJunYueDuZengLiang],
      ZongZaiKanShu |-> [value |-> TuiJianZongShu, increment |-> TuiJianZongShuZengLiang],
      ZongDianZanShu |-> [value |-> DianZanZongShu, increment |-> DianZanShuZengLiang],
      ZongZhuanFaShu |-> [value |-> ZhuanFaZongLiang, increment |-> ZhuanFaZongLiang],
      PaiMing |-> [value |-> ZongPaiMing, increment |-> ZongPaiMingBianHua] ]

FiniteNumber(v) == v.t = "number" /\ isFinite(v.n)
TaggedError(v) == v.t = "error"

\* C13: each value and each increment of the rendered bundle is a plain
\* finite number or a tagged error, never NaN, Infinity, null or undefined
\* (stated as the claim states it; the forward-total increment is written
\* into the bundle as computed).
C13_BundleMembersDisplayable ==
    Rendered =>
        \A l \in DOMAIN ColumnOf : \A part \in Parts :
            FiniteNumber(metrics[l][part]) \/ TaggedError(metrics[l][part])

\* The numeric columns of a record that hold NaN or +/-Infinity.
NumericFields == OtherFields \cup {ZhuanFaZongLiang}
Corrupted(rec) ==
    {f \in NumericFields \cap DOMAIN rec : rec[f].t = "number" /\ ~isFinite(rec[f].n)}

\* The member part of label l is computed from column f (the forward-total
\* increment reads its column only when a previous record was found).
ReadsColumn(l, part, f, prev) ==
    /\ ColumnOf[l][part] = f
    /\ (l = "ZongZhuanFaShu" /\ part = "increment") => prev.found

\* C14: when exactly one numeric column of the record is NaN or Infinity,
\* the members read from that column are tagged errors and every other
\* member is what it is for the record with that column repaired.
C14_FieldIsolation ==
    (Rendered /\ Cardinality(Corrupted(account)) = 1) =>
        LET f == CHOOSE c \in Corrupted(account) : TRUE
            prev == findPreviousAccountData(previousData, account)
            repaired == getDisplayMetrics([account EXCEPT ![f] = Num(IntNum(3))], prev)
        IN  /\ metrics.ZhangHaoMingCheng = repaired.ZhangHaoMingCheng
            /\ \A l \in DOMAIN ColumnOf : \A part \in Parts :
                  IF ReadsColumn(l, part, f, prev)
                  THEN TaggedError(metrics[l][part])
                  ELSE metrics[l][part] = repaired[l][part]

\* The previous records a call of getDisplayMetrics may be handed.
PreviousChoices ==
    {NoRecord, findPreviousAccountData(previousData, account)}
    \cup {[found |-> TRUE, rec |-> MakeRecord(Str(<<"A">>), Undefined, f)] :
             f \in {Undefined, Num(IntNum(2)), Num(NaN), Num(Infinity)}}

\* C18: apart from the forward-total increment, the rendered bundle is the
\* bundle of the same record with any other previous record or none, and
\* each other increment is the record's own increment column when that
\* column holds a finite number.
C18_IncrementsFromOwnColumns ==
    Rendered =>
        /\ \A prev \in PreviousChoices :
              LET other == getDisplayMetrics(account, prev)
              IN  /\ other.ZhangHaoMingCheng = metrics.ZhangHaoMingCheng
                  /\ \A l \in DOMAIN ColumnOf : \A part \in Parts :
                        (l = "ZongZhuanFaShu" /\ part = "increment")
                            \/ other[l][part] = metrics[l][part]
        /\ \A l \in DOMAIN ColumnOf \ {"ZongZhuanFaShu"} :
              FiniteNumber(Get(account, ColumnOf[l].increment))
                  => metrics[l].increment = Get(account, ColumnOf[l].increment)

\* C18 witness: a record whose post-count increment column holds 7 was
\* rendered against a matching previous record, and the increment shown is 7.
C18_Witness ==
    /\ Rendered
    /\ SameKey # {}
    /\ Get(account, WenZhangZongZengLiang) = Num(IntNum(7))
    /\ metrics.FaWenShu.increment = Num(IntNum(7))
    /\ metrics.ZongZhuanFaShu.increment # Null

(***************************************************************************)
(* YearlyAggregator: GET /api/yearly-stats.                                *)
(***************************************************************************)
XinZhiYuan == <<"XinZhiYuan">>       \* 新智元
JiQiZhiXin == <<"JiQiZhiXin">>       \* 机器之心
LiangZiWei == <<"LiangZiWei">>       \* 量子位

TARGET_ACCOUNTS == <<XinZhiYuan, JiQiZhiXin, LiangZiWei>>

Targets == {TARGET_ACCOUNTS[i] : i \in 1..Len(TARGET_ACCOUNTS)}

\* Period labels in ascending (string) order; the directory may hold the
\* first MaxMonths of them.
PeriodLabels == <<"202411", "202412", "202501", "202502">>
PeriodIndex(m) == CHOOSE i \in 1..Len(PeriodLabels) : PeriodLabels[i] = m
Periods == {PeriodLabels[i] : i \in 1..MaxMonths}

\* array.sort() of a set of period labels: ascending
RECURSIVE Sorted(_)
Sorted(S) ==
    IF S = {} THEN <<>>
    ELSE LET least == CHOOSE m \in S : \A o \in S : PeriodIndex(m) <= PeriodIndex(o)
         IN  <<least>> \o Sorted(S \ {least})

\* headers.findIndex(h => h is one of names): zero-based, -1 when none
findIndex(headers, names) ==
    IF \E i \in 1..Len(headers) : \E nm \in names : headers[i] = Str(nm)
    THEN (CHOOSE i \in 1..Len(headers) :
             /\ \E nm \in names : headers[i] = Str(nm)
             /\ \A j \in 1..i - 1 : \A nm \in names : headers[j] # Str(nm)) - 1
    ELSE -1

\* row[accountNameIdx]?.toString().trim()
NameOf(cell) ==
    IF cell.t = "number" THEN trim(NumberToString(cell.n)) ELSE trim(cell.s)

InitialStats ==
    [name \in Targets |->
        [accountName |-> name, monthlyData |-> <<>>,
         total |-> [YueDuZongShu |-> Zero, TouTiaoYueDu |-> Zero, ZhuanFaZongLiang |-> Zero]]]

\* The MonthlyData of one row.
MonthData(month, headers, row) ==
    LET readTotalIdx == findIndex(headers, {YueDuZongShu})
        headlineReadIdx == findIndex(headers, {TouTiaoYueDu})
        forwardTotalIdx == findIndex(headers, {ZhuanFaZongLiang})
    IN  [month |-> month,
         YueDuZongShu |-> IF readTotalIdx >= 0 THEN parseNumber_yearly(At(row, readTotalIdx)) ELSE Zero,
         TouTiaoYueDu |-> IF headlineReadIdx >= 0 THEN parseNumber_yearly(At(row, headlineReadIdx)) ELSE Zero,
         ZhuanFaZongLiang |-> IF forwardTotalIdx >= 0 THEN parseNumber_yearly(At(row, forwardTotalIdx)) ELSE Zero]

\* The push that forgets to add the forward total (mutant of PushMonth).
PushMonth_forwardNotAdded(stats, monthData) ==
    [monthlyData |-> Append(stats.monthlyData, monthData),
     accountName |-> stats.accountName,
     total |-> [YueDuZongShu |-> NumAdd(stats.total.YueDuZongShu, monthData.YueDuZongShu),
                TouTiaoYueDu |-> NumAdd(stats.total.TouTiaoYueDu, monthData.TouTiaoYueDu),
                ZhuanFaZongLiang |-> stats.total.ZhuanFaZongLiang]]

\* stats.monthlyData.push(monthData); stats.total.<metric> += monthData.<metric>
PushMonth(stats, monthData) ==
    [monthlyData |-> Append(stats.monthlyData, monthData),
     accountName |-> stats.accountName,
     total |-> [YueDuZongShu |-> NumAdd(stats.total.YueDuZongShu, monthData.YueDuZongShu),
                TouTiaoYueDu |-> NumAdd(stats.total.TouTiaoYueDu, monthData.TouTiaoYueDu),
                ZhuanFaZongLiang |-> NumAdd(stats.total.ZhuanFaZongLiang, monthData.ZhuanFaZongLiang)]]

\* for (const row of dataRows) { ... }: the accumulators after the rows
RECURSIVE ScanRows(_, _, _, _)
ScanRows(map, month, headers, rows) ==
    IF rows = <<>> THEN map
    ELSE LET row == Head(rows)
             accountNameIdx == findIndex(headers, {GongZhongHao, ZhangHaoMing})
             cell == At(row, accountNameIdx)
             next == IF Truthy(cell) /\ NameOf(cell) \in Targets
                     THEN [map EXCEPT ![NameOf(cell)] = PushMonth(@, MonthData(month, headers, row))]
                     ELSE map
         IN  ScanRows(next, month, headers, Tail(rows))

\* The body of the loop for one period whose directory could be listed: what
\* the entry of the directory makes of the accumulators.
ScanMonth(map, month, entry) ==
    IF entry.io \in {"excelGone", "readFails", "noSheets"} THEN map
    ELSE IF Len(entry.sheet) < 2 THEN map
    ELSE ScanRows(map, month, Head(entry.sheet), Tail(entry.sheet))

\* NextResponse.json of the accumulators.
JsonNumber(n) == IF isFinite(n) THEN Num(n) ELSE Null
JsonMonthData(d) ==
    [month |-> d.month, YueDuZongShu |-> JsonNumber(d.YueDuZongShu),
     TouTiaoYueDu |-> JsonNumber(d.TouTiaoYueDu),
     ZhuanFaZongLiang |-> JsonNumber(d.ZhuanFaZongLiang)]
JsonStats(s) ==
    [accountName |-> s.accountName,
     monthlyData |-> [i \in 1..Len(s.monthlyData) |-> JsonMonthData(s.monthlyData[i])],
     total |-> [YueDuZongShu |-> JsonNumber(s.total.YueDuZongShu),
                TouTiaoYueDu |-> JsonNumber(s.total.TouTiaoYueDu),
                ZhuanFaZongLiang |-> JsonNumber(s.total.ZhuanFaZongLiang)]]

(***************************************************************************)
(* The data directory the aggregation is exercised on.  Per period: no     *)
(* directory, a directory without workbook, or a directory with a workbook *)
(* and what happens when the loop reaches it.                              *)
(***************************************************************************)
YearHeader == <<Str(GongZhongHao), Str(YueDuZongShu), Str(TouTiaoYueDu), Str(ZhuanFaZongLiang)>>

YearNames == {Str(XinZhiYuan), Str(JiQiZhiXin), Str(<<"Other">>), Str(<<>>)}

YearTriples ==
    { <<Str(<<"1", "w">>), Num(IntNum(5)), Str(<<"2">>)>>,
      <<Str(<<>>), Str(<<"a", "b", "c">>), Num(IntNum(7))>>,
      <<Str(InfinityText), Str(<<"3">>), Str(<<"1", "W">>)>> }

YearRows == {<<nm>> \o tr : nm \in YearNames, tr \in YearTriples}

PairRows ==
    {<<nm>> \o tr : nm \in {Str(XinZhiYuan), Str(JiQiZhiXin)},
                    tr \in { <<Str(<<"1", "w">>), Num(IntNum(5)), Str(<<"2">>)>>,
                             <<Str(<<>>), Str(<<"a", "b", "c">>), Num(IntNum(7))>> }}

YearSheets ==
    {<<>>, <<YearHeader>>}
    \cup {<<YearHeader, r>> : r \in YearRows}
    \cup {<<YearHeader, r1, r2>> : r1 \in PairRows, r2 \in PairRows}
    \cup { << <<Str(ZhangHaoMing), Str(GongZhongHao), Str(YueDuZongShu)>>,
              <<Str(<<"x">>), Str(XinZhiYuan), Str(<<"5">>)>> >>,
           << <<Str(YueDuZongShu), Str(GongZhongHao)>>,
              <<Num(IntNum(7)), Str(<<" ", "LiangZiWei", " ">>)>> >>,
           << <<Str(YueDuZongShu), Str(ZhuanFaZongLiang)>>,
              <<Str(<<"5">>), Str(<<"2">>)>> >>,
           << <<Str(GongZhongHao), Str(YueDuZongShu), Str(YueDuZongShu)>>,
              <<Str(LiangZiWei), Str(<<"5">>), Str(<<"7">>)>> >> }

DiskEntries ==
    { [kind |-> "absent", io |-> "none", sheet |-> <<>>],
      [kind |-> "noExcelDir", io |-> "none", sheet |-> <<>>] }
    \cup {[kind |-> "dir", io |-> io, sheet |-> <<>>] :
             io \in {"listFails", "excelGone", "readFails", "noSheets"}}
    \cup {[kind |-> "dir", io |-> "ok", sheet |-> s] : s \in YearSheets}

NoResponse == [st |-> "pending", data |-> <<>>, months |-> <<>>]

InitYearly ==
    /\ mode = "GET_yearly"
    /\ disk \in [Periods -> DiskEntries]
    /\ pc = "start"
    /\ months = <<>>
    /\ idx = 0
    /\ statsMap = <<>>
    /\ response = NoResponse
    /\ IdleParse
    /\ IdleBuild
    /\ IdleDisplay
    /\ IdlePage

\* Lines 55-86: the data directory is listed, filtered and sorted, and the
\* accumulators are initialised; dir is what the data directory does.
YearlyStart ==
    /\ mode = "GET_yearly"
    /\ pc = "start"
    /\ \E dir \in {"ok", "missing", "listFails"} :
          IF dir = "missing"
          THEN /\ response' = [st |-> "404", data |-> <<>>, months |-> <<>>]
               /\ pc' = "done"
               /\ UNCHANGED <<months, idx, statsMap>>
          ELSE IF dir = "listFails"
          THEN /\ response' = [st |-> "500", data |-> <<>>, months |-> <<>>]
               /\ pc' = "done"
               /\ UNCHANGED <<months, idx, statsMap>>
          ELSE /\ months' = Sorted({m \in Periods : disk[m].kind = "dir"})
               /\ idx' = 1
               /\ statsMap' = InitialStats
               /\ pc' = "loop"
               /\ UNCHANGED response
    /\ UNCHANGED <<mode, pageVars, disk, parseVars, buildVars, displayVars>>

\* Lines 89-148: one iteration of the loop over the periods.  Listing the
\* period's directory (line 91) is outside the inner try: when it throws,
\* the outer catch answers 500.
YearlyMonth ==
    /\ mode = "GET_yearly"
    /\ pc = "loop"
    /\ idx <= Len(months)
    /\ IF disk[months[idx]].io = "listFails"
       THEN /\ response' = [st |-> "500", data |-> <<>>, months |-> <<>>]
            /\ pc' = "done"
            /\ UNCHANGED <<idx, statsMap>>
       ELSE /\ statsMap' = ScanMonth(statsMap, months[idx], disk[months[idx]])
            /\ idx' = idx + 1
            /\ UNCHANGED <<pc, response>>
    /\ UNCHANGED <<mode, pageVars, disk, months, parseVars, buildVars, displayVars>>

\* Lines 150-156: the accumulators are returned in allowlist order.
YearlyReturn ==
    /\ mode = "GET_yearly"
    /\ pc = "loop"
    /\ idx > Len(months)
    /\ response' = [st |-> "200",
                    data |-> [i \in 1..Len(TARGET_ACCOUNTS) |-> JsonStats(statsMap[TARGET_ACCOUNTS[i]])],
                    months |-> months]
    /\ pc' = "done"
    /\ UNCHANGED <<mode, pageVars, disk, months, idx, statsMap, parseVars, buildVars, displayVars>>

NextYearly == YearlyStart \/ YearlyMonth \/ YearlyReturn

SpecYearly == InitYearly /\ [][NextYearly]_vars

(***************************************************************************)
(* Claims about the yearly aggregation, checked under SpecYearly.          *)
(***************************************************************************)
MetricIds == {"YueDuZongShu", "TouTiaoYueDu", "ZhuanFaZongLiang"}

MetricOf(d, id) ==
    IF id = "YueDuZongShu" THEN d.YueDuZongShu
    ELSE IF id = "TouTiaoYueDu" THEN d.TouTiaoYueDu
    ELSE d.ZhuanFaZongLiang

\* The sum of a metric over the entries of a series, in series order.
RECURSIVE SeriesSum(_, _)
SeriesSum(series, id) ==
    IF series = <<>> THEN Zero
    ELSE NumAdd(SeriesSum(SubSeq(series, 1, Len(series) - 1), id),
                MetricOf(series[Len(series)], id))

\* Some cell of some workbook of the directory holds the name.
Mentioned(name) ==
    \E m \in Periods : \E i \in 1..Len(disk[m].sheet) : \E j \in 1..Len(disk[m].sheet[i]) :
        NameOf(disk[m].sheet[i][j]) = name

Aggregating == mode = "GET_yearly" /\ statsMap # <<>>

\* C8: at every point of the aggregation and in its result, for every
\* allowlisted account and each of the three metrics the total is the sum of
\* the metric over the entries of monthlyData; an account no workbook names
\* has an empty series and totals of 0.
C8_TotalIsSeriesSum ==
    Aggregating =>
        \A name \in Targets :
            /\ \A id \in MetricIds :
                  MetricOf(statsMap[name].total, id) = SeriesSum(statsMap[name].monthlyData, id)
            /\ ~Mentioned(name) =>
                  /\ statsMap[name].monthlyData = <<>>
                  /\ \A id \in MetricIds : MetricOf(statsMap[name].total, id) = Zero

\* C8 witness: the aggregation returned, one account has an entry in each of
\* two periods, and its total reads are the 20000 the two entries add up to.
C8_Witness ==
    /\ mode = "GET_yearly"
    /\ pc = "done"
    /\ response.st = "200"
    /\ Len(statsMap[XinZhiYuan].monthlyData) = 2
    /\ statsMap[XinZhiYuan].monthlyData[1].month # statsMap[XinZhiYuan].monthlyData[2].month
    /\ statsMap[XinZhiYuan].total.YueDuZongShu = IntNum(20000)
    /\ response.data[1].total.YueDuZongShu = Num(IntNum(20000))

\* The period's workbook was read and decoded into at least a Header and a row.
Readable(m) == disk[m].kind = "dir" /\ disk[m].io = "ok" /\ Len(disk[m].sheet) >= 2

\* C9: a failure while reading one period (listing its directory, reading
\* the file, decoding the workbook) never aborts the aggregation: the call
\* returns the aggregate, no entry comes from the failed period and the
\* other periods are aggregated (stated as the claim states it; the listing
\* of the period's directory is outside the try that skips a period).
C9_FailedPeriodSkipped ==
    (mode = "GET_yearly" /\ pc = "done" /\ statsMap # <<>>) =>
        /\ response.st = "200"
        /\ \A name \in Targets :
              /\ \A i \in 1..Len(statsMap[name].monthlyData) :
                    Readable(statsMap[name].monthlyData[i].month)
              /\ \A m \in Periods :
                    ( /\ Readable(m)
                      /\ Head(disk[m].sheet) = YearHeader
                      /\ \E i \in 2..Len(disk[m].sheet) : disk[m].sheet[i][1] = Str(name) )
                    => \E i \in 1..Len(statsMap[name].monthlyData) :
                          statsMap[name].monthlyData[i].month = m

Returned == mode = "GET_yearly" /\ pc = "done" /\ response.st = "200"

\* The cell of row i of the period's sheet under the first column named col.
CellUnder(m, i, cols) == At(disk[m].sheet[i], findIndex(disk[m].sheet[1], cols))

\* The rows of period m that are records of the entity when the entity is
\* looked up in the columns cols.
RecordsOf(name, m, cols) ==
    IF Readable(m)
    THEN {i \in 2..Len(disk[m].sheet) :
             Truthy(CellUnder(m, i, cols)) /\ NameOf(CellUnder(m, i, cols)) = name}
    ELSE {}

\* The number of entries of a series that carry the period.
EntriesIn(series, m) == Cardinality({k \in 1..Len(series) : series[k].month = m})

\* C16: a row contributes to an allowlisted entity exactly when its cell in
\* the 公众号 column is the entity's name, whatever the order of the columns
\* and whatever its 帐号名 cell holds, and the result is one aggregate per
\* allowlist entry in allowlist order (stated as the claim states it; the
\* code looks the name up in the first column named 公众号 or 帐号名).
C16_MatchedByPrimaryName ==
    Returned =>
        /\ Len(response.data) = Len(TARGET_ACCOUNTS)
        /\ \A i \in 1..Len(TARGET_ACCOUNTS) : response.data[i].accountName = TARGET_ACCOUNTS[i]
        /\ \A name \in Targets : \A m \in Periods :
              EntriesIn(statsMap[name].monthlyData, m)
                  = Cardinality(RecordsOf(name, m, {GongZhongHao}))

\* The entries the records of the entity in period m give, in row order.
PeriodEntries(name, m, cols) ==
    LET rows == RecordsOf(name, m, cols)
        at(j) == CHOOSE i \in rows : Cardinality({k \in rows : k <= i}) = j
    IN  [j \in 1..Cardinality(rows) |->
            MonthData(m, disk[m].sheet[1], disk[m].sheet[at(j)])]

\* The series the records of the entity give over the periods ms, in order.
RECURSIVE ExpectedSeries(_, _, _)
ExpectedSeries(name, ms, cols) ==
    IF ms = <<>> THEN <<>>
    ELSE PeriodEntries(name, Head(ms), cols) \o ExpectedSeries(name, Tail(ms), cols)

\* C17: the series of an allowlisted entity is, in ascending period order,
\* one entry per record of the entity (a row whose 公众号 cell is its name)
\* and nothing else: no entry for a period without such a record.
C17_SeriesIsRecordsInOrder ==
    Returned =>
        \A name \in Targets :
            statsMap[name].monthlyData = ExpectedSeries(name, Sorted(Periods), {GongZhongHao})

\* C19: the period list of the report is, in ascending order, exactly the
\* periods whose Snapshot was read and aggregated (stated as the claim
\* states it; the code returns every period that holds a workbook).
C19_MonthsAreAggregatedPeriods ==
    Returned => response.months = Sorted({m \in Periods : Readable(m)})

(***************************************************************************)
(* The dashboard page: loadData, the effect that loads the selected period *)
(* and the period before it.                                               *)
(***************************************************************************)
\* The characters of a period label.
PeriodText ==
    [m \in {PeriodLabels[i] : i \in 1..Len(PeriodLabels)} |->
        CASE m = "202411" -> <<"2", "0", "2", "4", "1", "1">>
          [] m = "202412" -> <<"2", "0", "2", "4", "1", "2">>
          [] m = "202501" -> <<"2", "0", "2", "5", "0", "1">>
          [] OTHER -> <<"2", "0", "2", "5", "0", "2">>]

\* parseMonthKey: parseInt(monthKey) for a label of six digits, 0 for the
\* empty label.
parseMonthKey(m) ==
    IF m \notin DOMAIN PeriodText THEN 0
    ELSE LET text == PeriodText[m]
         IN  IF Len(text) = 6 /\ \A i \in 1..6 : IsDigit(text[i])
             THEN DigitsValue(text, 0) ELSE 0

\* The period list sorted oldest first.
RECURSIVE sortMonths_ascending(_)
sortMonths_ascending(ms) ==
    IF ms = <<>> THEN <<>>
    ELSE LET least == CHOOSE i \in 1..Len(ms) :
                         \A j \in 1..Len(ms) : parseMonthKey(ms[i]) <= parseMonthKey(ms[j])
         IN  <<ms[least]>> \o
             sortMonths_ascending(SubSeq(ms, 1, least - 1) \o SubSeq(ms, least + 1, Len(ms)))

\* months.sort((a, b) => parseMonthKey(b) - parseMonthKey(a)): newest first
RECURSIVE sortMonths(_)
sortMonths(ms) ==
    IF ms = <<>> THEN <<>>
    ELSE LET newest == CHOOSE i \in 1..Len(ms) :
                          \A j \in 1..Len(ms) : parseMonthKey(ms[i]) >= parseMonthKey(ms[j])
         IN  <<ms[newest]>> \o
             sortMonths(SubSeq(ms, 1, newest - 1) \o SubSeq(ms, newest + 1, Len(ms)))

\* array.indexOf(x), zero-based, -1 when absent
indexOf(ms, x) ==
    IF \E i \in 1..Len(ms) : ms[i] = x
    THEN (CHOOSE i \in 1..Len(ms) : ms[i] = x /\ \A j \in 1..i - 1 : ms[j] # x) - 1
    ELSE -1

\* A sequence listing the set, in some order.
RECURSIVE ListOf(_)
ListOf(S) == IF S = {} THEN <<>> ELSE LET x == CHOOSE y \in S : TRUE IN <<x>> \o ListOf(S \ {x})

\* The period lists the page can hold: loadMonths stores sortMonths(result.months).
AvailableLists == {sortMonths(ListOf(S)) : S \in SUBSET {PeriodLabels[i] : i \in 1..Len(PeriodLabels)}}

\* The Snapshots the two fetches can deliver.
CurrentSnapshots ==
    { <<>>, <<MakeRecord(Str(<<"A">>), Undefined, Num(IntNum(5)))>>,
      <<MakeRecord(Str(<<"A">>), Undefined, Num(IntNum(5))),
        MakeRecord(Str(<<"B">>), Str(<<"B">>), Num(IntNum(2)))>> }
PreviousSnapshots ==
    { <<>>, <<MakeRecord(Str(<<"A">>), Undefined, Num(IntNum(2)))>> }

\* What a fetch of /api/data?month=... can do: throw (the fetch or the
\* decoding of its body), answer with an HTTP error, answer with an error
\* payload, answer without data, answer with a Snapshot.
FetchOutcomes(snapshots) ==
    {[k |-> kind, data |-> <<>>] : kind \in {"throws", "httpError", "errorPayload", "noData"}}
    \cup {[k |-> "data", data |-> d] : d \in snapshots}

InitPage ==
    /\ mode = "loadData"
    /\ availableMonths \in AvailableLists
    /\ selectedMonth \in {""} \cup {availableMonths[i] : i \in 1..Len(availableMonths)}
    /\ currentData \in {<<>>, <<MakeRecord(Str(<<"A">>), Undefined, Num(IntNum(5)))>>}
    /\ previousData \in PreviousSnapshots
    /\ error \in {"", "failed"}
    /\ loading = FALSE
    /\ step = "effect"
    /\ previousMonth = ""
    /\ previousFetch = "none"
    /\ loads = <<>>
    /\ account = <<>>
    /\ key = Undefined
    /\ getter = [raises |-> FALSE, v |-> Undefined]
    /\ fieldName = <<>>
    /\ safeValue = Undefined
    /\ metrics = <<>>
    /\ IdleParse
    /\ IdleBuild
    /\ IdleYearly

\* Lines 88-96: the effect runs; without a selected available period it
\* clears the page, otherwise it starts the current-period fetch.
LoadStart ==
    /\ mode = "loadData"
    /\ step = "effect"
    /\ IF selectedMonth = "" \/ indexOf(availableMonths, selectedMonth) < 0
       THEN /\ currentData' = <<>>
            /\ previousData' = <<>>
            /\ error' = ""
            /\ step' = "done"
            /\ UNCHANGED loading
       ELSE /\ loading' = TRUE
            /\ error' = ""
            /\ step' = "current"
            /\ UNCHANGED <<currentData, previousData>>
    /\ UNCHANGED <<mode, loads, availableMonths, selectedMonth, previousMonth, previousFetch,
                   parseVars, buildVars, yearlyVars, account, key, getter, fieldName,
                   safeValue, metrics>>

\* Lines 98-133 and 153-166: the current-period fetch settles; the handler
\* stores its outcome and either returns, or requests the period that
\* follows the selected one in the newest-first list, or clears previousData.
FetchCurrent ==
    /\ mode = "loadData"
    /\ step = "current"
    /\ \E r \in FetchOutcomes(CurrentSnapshots) :
          IF r.k = "throws"
          THEN /\ error' = "thrown"
               /\ currentData' = <<>>
               /\ previousData' = <<>>
               /\ loading' = FALSE
               /\ step' = "done"
               /\ UNCHANGED previousMonth
          ELSE IF r.k = "httpError"
          THEN /\ error' = "failed"
               /\ currentData' = <<>>
               /\ loading' = FALSE
               /\ step' = "done"
               /\ UNCHANGED <<previousData, previousMonth>>
          ELSE /\ currentData' = IF r.k = "errorPayload" THEN <<>> ELSE r.data
               /\ error' = IF r.k = "errorPayload" THEN "failed"
                           ELSE IF r.data = <<>> THEN "empty" ELSE ""
               /\ LET sortedMonths == sortMonths(availableMonths)
                      currentIndex == indexOf(sortedMonths, selectedMonth)
                  IN  IF currentIndex >= 0 /\ currentIndex + 1 < Len(sortedMonths)
                      THEN /\ previousMonth' = sortedMonths[currentIndex + 2]
                           /\ step' = "previous"
                           /\ UNCHANGED <<previousData, loading>>
                      ELSE /\ previousData' = <<>>
                           /\ loading' = FALSE
                           /\ step' = "done"
                           /\ UNCHANGED previousMonth
    /\ UNCHANGED <<mode, loads, availableMonths, selectedMonth, previousFetch,
                   parseVars, buildVars, yearlyVars, account, key, getter, fieldName,
                   safeValue, metrics>>

\* Lines 134-152: the previous-period fetch settles.
FetchPrevious ==
    /\ mode = "loadData"
    /\ step = "previous"
    /\ \E r \in FetchOutcomes(PreviousSnapshots) :
          /\ previousFetch' = IF r.k = "data" /\ r.data = <<>> THEN "emptyData" ELSE r.k
          /\ previousData' = IF r.k = "data" /\ Len(r.data) > 0 THEN r.data ELSE <<>>
    /\ loading' = FALSE
    /\ step' = "done"
    /\ UNCHANGED <<mode, loads, availableMonths, selectedMonth, currentData, error, previousMonth,
                   parseVars, buildVars, yearlyVars, account, key, getter, fieldName,
                   safeValue, metrics>>

NextPage == LoadStart \/ FetchCurrent \/ FetchPrevious

SpecPage == InitPage /\ [][NextPage]_vars

(***************************************************************************)
(* Claims about the page, checked under SpecPage.                          *)
(***************************************************************************)
\* The available periods strictly older than the selected one.
OlderMonths ==
    {availableMonths[i] : i \in {j \in 1..Len(availableMonths) :
        parseMonthKey(availableMonths[j]) < parseMonthKey(selectedMonth)}}

PreviousFailed == previousFetch \in {"throws", "httpError", "errorPayload", "noData", "emptyData"}

\* C20: a failed previous-period load leaves previousData empty, so that the
\* forward-total increment of every current record is absent; the period
\* requested as previous is the greatest available period strictly older
\* than the selected one, and none is requested for the oldest period; the
\* settling of the previous-period fetch changes neither currentData nor
\* the error message.
C20_PreviousLoadSilent ==
    /\ [](mode = "loadData" =>
            /\ PreviousFailed =>
                  /\ previousData = <<>>
                  /\ \A i \in 1..Len(currentData) :
                        forwardIncrement(currentData[i],
                            findPreviousAccountData(previousData, currentData[i])) = Null
            /\ previousMonth # "" =>
                  /\ previousMonth \in OlderMonths
                  /\ \A m \in OlderMonths : parseMonthKey(m) <= parseMonthKey(previousMonth)
            /\ (step \in {"previous", "done"} /\ OlderMonths = {}) =>
                  previousMonth = "" /\ previousFetch = "none")
    /\ [][step = "previous" => (currentData' = currentData /\ error' = error)]_vars

\* C20 witness: with three periods available and the middle one selected,
\* the previous-period fetch threw while a stale previous Snapshot was held.
C20_Witness ==
    /\ mode = "loadData"
    /\ step = "done"
    /\ Len(availableMonths) = 3
    /\ selectedMonth = availableMonths[2]
    /\ previousMonth = availableMonths[3]
    /\ previousFetch = "throws"
    /\ Len(currentData) = 2
    /\ previousData = <<>>

(***************************************************************************)
(* The dashboard page with several selections: every change of the         *)
(* selected period starts a run of loadData, runs are never cancelled, and *)
(* their fetches settle in any order.  A run keeps the selectedMonth it    *)
(* was started with; currentData, previousData, error and loading are the  *)
(* page's.                                                                 *)
(***************************************************************************)
\* The Snapshot the server holds for a period: one record whose forward
\* total is the month number of the period.
SnapshotFor(m) ==
    <<MakeRecord(Str(<<"A">>), Undefined, Num(IntNum(parseMonthKey(m) % 100)))>>

InitHome ==
    /\ mode = "Home"
    /\ availableMonths \in AvailableLists \ {<<>>}
    /\ selectedMonth = ""
    /\ currentData = <<>>
    /\ previousData = <<>>
    /\ error = ""
    /\ loading = FALSE
    /\ step = "idle"
    /\ previousMonth = ""
    /\ previousFetch = "none"
    /\ loads = <<>>
    /\ account = <<>>
    /\ key = Undefined
    /\ getter = [raises |-> FALSE, v |-> Undefined]
    /\ fieldName = <<>>
    /\ safeValue = Undefined
    /\ metrics = <<>>
    /\ IdleParse
    /\ IdleBuild
    /\ IdleYearly

\* Lines 71 and 253: the newest period is selected when the list arrives,
\* afterwards the user selects any other period; lines 88-99: the effect
\* runs for the new selection and starts its current-period fetch.
SelectMonth ==
    /\ mode = "Home"
    /\ Len(loads) < MaxLoads
    /\ \E i \in 1..Len(availableMonths) :
          /\ availableMonths[i] # selectedMonth
          /\ selectedMonth = "" => i = 1
          /\ selectedMonth' = availableMonths[i]
          /\ loads' = Append(loads, [month |-> availableMonths[i], step |-> "current",
                                     previousMonth |-> ""])
    /\ loading' = TRUE
    /\ error' = ""
    /\ UNCHANGED <<mode, availableMonths, currentData, previousData, step, previousMonth,
                   previousFetch, parseVars, buildVars, yearlyVars, account, key, getter,
                   fieldName, safeValue, metrics>>

\* Lines 98-133 and 153-166 for one run: its current-period fetch settles.
CurrentSettles ==
    /\ mode = "Home"
    /\ \E i \in 1..Len(loads) :
          /\ loads[i].step = "current"
          /\ \E r \in FetchOutcomes({<<>>, SnapshotFor(loads[i].month)}) :
                IF r.k = "throws"
                THEN /\ error' = "thrown"
                     /\ currentData' = <<>>
                     /\ previousData' = <<>>
                     /\ loading' = FALSE
                     /\ loads' = [loads EXCEPT ![i].step = "done"]
                ELSE IF r.k = "httpError"
                THEN /\ error' = "failed"
                     /\ currentData' = <<>>
                     /\ loading' = FALSE
                     /\ loads' = [loads EXCEPT ![i].step = "done"]
                     /\ UNCHANGED previousData
                ELSE /\ currentData' = IF r.k = "errorPayload" THEN <<>> ELSE r.data
                     /\ error' = IF r.k = "errorPayload" THEN "failed"
                                 ELSE IF r.data = <<>> THEN "empty" ELSE ""
                     /\ LET sortedMonths == sortMonths(availableMonths)
                            currentIndex == indexOf(sortedMonths, loads[i].month)
                        IN  IF currentIndex >= 0 /\ currentIndex + 1 < Len(sortedMonths)
                            THEN /\ loads' = [loads EXCEPT
                                                 ![i].step = "previous",
                                                 ![i].previousMonth = sortedMonths[currentIndex + 2]]
                                 /\ UNCHANGED <<previousData, loading>>
                            ELSE /\ previousData' = <<>>
                                 /\ loading' = FALSE
                                 /\ loads' = [loads EXCEPT ![i].step = "done"]
    /\ UNCHANGED <<mode, availableMonths, selectedMonth, step, previousMonth, previousFetch,
                   parseVars, buildVars, yearlyVars, account, key, getter, fieldName,
                   safeValue, metrics>>

\* Lines 134-152 and 164-166 for one run: its previous-period fetch settles.
PreviousSettles ==
    /\ mode = "Home"
    /\ \E i \in 1..Len(loads) :
          /\ loads[i].step = "previous"
          /\ \E r \in FetchOutcomes({<<>>, SnapshotFor(loads[i].previousMonth)}) :
                previousData' = IF r.k = "data" /\ Len(r.data) > 0 THEN r.data ELSE <<>>
          /\ loads' = [loads EXCEPT ![i].step = "done"]
    /\ loading' = FALSE
    /\ UNCHANGED <<mode, availableMonths, selectedMonth, currentData, error, step,
                   previousMonth, previousFetch, parseVars, buildVars, yearlyVars, account,
                   key, getter, fieldName, safeValue, metrics>>

NextHome == SelectMonth \/ CurrentSettles \/ PreviousSettles

SpecHome == InitHome /\ [][NextHome]_vars

(***************************************************************************)
(* Claims about overlapping loads, checked under SpecHome.                 *)
(***************************************************************************)
InFlight(i) == loads[i].step # "done"

\* C22: once no load is in flight, currentData is the Snapshot of the
\* selected period or empty; and loading is true while a load of the
\* selected period is in flight (stated as the claim states it; a run that
\* settles late writes its own period's Snapshot, and any run that ends
\* clears loading).
C22_CurrentDataOfSelectedMonth ==
    (mode = "Home" /\ loads # <<>>) =>
        /\ (\A i \in 1..Len(loads) : ~InFlight(i)) =>
              currentData \in {<<>>, SnapshotFor(selectedMonth)}
        /\ (\E i \in 1..Len(loads) : InFlight(i) /\ loads[i].month = selectedMonth) =>
              loading = TRUE

\* C23: whenever loading is false and currentData is not empty, previousData
\* is empty or the Snapshot of the greatest available period older than the
\* selected one (stated as the claim states it; the previous-period fetch of
\* an earlier selection writes previousData whenever it settles).
C23_PreviousDataOfPrecedingMonth ==
    (mode = "Home" /\ loading = FALSE /\ currentData # <<>>) =>
        \/ previousData = <<>>
        \/ \E m \in OlderMonths :
              /\ \A o \in OlderMonths : parseMonthKey(o) <= parseMonthKey(m)
              /\ previousData = SnapshotFor(m)

(***************************************************************************)
(* The program: a behaviour exercises one of its operations.               *)
(***************************************************************************)
Init == InitParse \/ InitBuild \/ InitDisplay \/ InitYearly \/ InitPage \/ InitHome

Next == NextParse \/ NextBuild \/ NextDisplay \/ NextYearly \/ NextPage \/ NextHome

Spec == Init /\ [][Next]_vars

====
